---- MODULE Spec2Model ----
(***************************************************************************)
(* A model of rosterbot (src/rosterbot.py): the poll task                  *)
(* process_calendar_loop / process_calendar and the RTM event handlers,    *)
(* which run on one asyncio event loop and interleave only at awaits.      *)
(*                                                                         *)
(* Time is counted in half minutes since midnight UTC of day 0: events    *)
(* start and end on whole minutes, the clock is read on a whole minute or  *)
(* between two, and every test of the program on a time compares the clock *)
(* with a whole minute.  A str is a sequence of one-character strings;     *)
(* Slack ids and message timestamps are atoms.  Every action is one run of *)
(* a task from one await to the next, so handlers interleave with the poll *)
(* task exactly at its awaits.  args.test and args.silent are false.       *)
(***************************************************************************)
EXTENDS Integers, Sequences, FiniteSets, Bags, TLC

\* ------------------------------------------------------------------------
\* Program constants (production values: the right-hand side of `and/or`)
\* ------------------------------------------------------------------------
SLEEP_MINUTES == 1
CHALLENGE_TIME_OFFSET == 10
UTCHOURS_ACTIVE_START == (8 - CHALLENGE_TIME_OFFSET) % 24
UTCHOURS_ACTIVE_END == (21 - CHALLENGE_TIME_OFFSET) % 24
MINUTES_NOUSERS == 20
MINUTES_NOTIFY == 10
MINUTES_DANGER == 1
\* datetime.now(): the clock readings in a minute
PerMinute == 2
Minutes(n) == n * PerMinute
\* os.environ['START_DATETIME'], here 09:45 of day 0
START_DATETIME == Minutes(9 * 60 + 45)

\* ------------------------------------------------------------------------
\* Bounds of the model
\* ------------------------------------------------------------------------
\* the clock when the process starts: 09:43 of day 0
T0 == Minutes(9 * 60 + 43)
\* the poll loop is followed for this many minutes
MaxMinutes == 9
MaxTime == T0 + Minutes(MaxMinutes)
\* a tick reads the clock at most this many half minutes after the one
\* before
MaxStep == 4
\* the calendar feed holds at most this many events
MaxEvents == 2
\* at most this many correlation replies are answered
MaxCorrelations == 1

\* ------------------------------------------------------------------------
\* Values
\* ------------------------------------------------------------------------
\* Python's None where a str is expected: no str, since a str's elements
\* are single characters
None == <<"None">>
\* Python's None where a Slack id is expected
NoneId == "None"
\* checked_hour = None
NoHour == -1
\* a member dict without the key 'real_name'
NoKey == <<"NoKey">>
\* no thread_ts / no calid in a message
NoThread == 0
NoCal == <<>>

Users == {"U1", "U2"}

LP == "("
RP == ")"
\* chr(65288) and chr(65289)
FWLP == "FW("
FWRP == "FW)"
\* the line break, which '.' of a regular expression does not match
NL == "\n"
\* the characters str.split() splits at: those str.isspace() holds for.
\* A character TLA+ has no escape for is written as its code point.
Whitespace ==
  {" ", "\t", NL, "\r", "\f", "U+000B", "U+001C", "U+001D", "U+001E", "U+001F",
   "U+0085", "U+00A0", "U+1680", "U+2000", "U+2001", "U+2002", "U+2003",
   "U+2004", "U+2005", "U+2006", "U+2007", "U+2008", "U+2009", "U+200A",
   "U+2028", "U+2029", "U+202F", "U+205F", "U+3000"}
\* an exception raised where a str is expected: no str either
TypeError == <<"TypeError">>
IndexError == <<"IndexError">>

NameA == <<"a">>

\* calendar summaries: a name in brackets, the same in fullwidth brackets,
\* and no brackets at all
Summaries == << <<"t", LP, "a", RP>>, <<"t", FWLP, "a", FWRP>>, <<"t">> >>

Ev(start, end, summary, uid) ==
  [start |-> start, end |-> end, summary |-> summary, uid |-> uid]

\* the events a feed is drawn from, in the order the feed lists them (not
\* by start); start <= end as iCalendar requires; uid is Google's -1
EventPool ==
  << Ev(T0 + Minutes(14), T0 + Minutes(15), Summaries[2], -1),
     Ev(T0 + Minutes(17), T0 + Minutes(18), Summaries[1], -1),
     Ev(T0 + Minutes(5), T0 + Minutes(6), Summaries[1], -1),
     Ev(T0 + Minutes(5), T0 + Minutes(6), Summaries[3], -1),
     Ev(T0 + Minutes(5), T0 + Minutes(5), Summaries[2], -1) >>

\* members of the Slack directory: one with a real name, one without the
\* key 'real_name', and one whose real name is a blank
M1 == [id |-> "U1", name |-> <<"x">>, real_name |-> NameA]
M2 == [id |-> "U2", name |-> NameA, real_name |-> NoKey]
M3 == [id |-> "U1", name |-> <<"x">>, real_name |-> <<" ">>]
Members == {M1, M2, M3}

\* message texts: a text is a sequence of tokens, a mention or a word
Mention(u) == [mention |-> u]
Word == [mention |-> ""]
Texts == { <<Mention("U1")>>, <<Mention("U1"), Word>>, <<Word, Mention("U2")>> }

\* ------------------------------------------------------------------------
\* Pure functions
\* ------------------------------------------------------------------------
hour(t) == (t \div Minutes(60)) % 24
minute(t) == (t \div PerMinute) % 60

is_checked_hour(h) ==
  IF UTCHOURS_ACTIVE_START > UTCHOURS_ACTIVE_END
  THEN h >= UTCHOURS_ACTIVE_START \/ h < UTCHOURS_ACTIVE_END
  ELSE h >= UTCHOURS_ACTIVE_START /\ h < UTCHOURS_ACTIVE_END

\* dict.get(k, default)
Get(d, k, default) == IF k \in DOMAIN d THEN d[k] ELSE default

\* del d[k], for k in d
Del(d, k) == [x \in DOMAIN d \ {k} |-> d[x]]

\* d[k] = v
Put(d, k, v) == [x \in DOMAIN d \cup {k} |-> IF x = k THEN v ELSE d[x]]

EmptyDict == [x \in {} |-> x]

\* list.sort(key=now - ev.start, reverse=True): ascending start, and
\* stable, so events of equal start keep the order of the feed
RECURSIVE InsertByStart(_, _)
InsertByStart(sorted, ev) ==
  IF sorted = <<>> THEN <<ev>>
  ELSE IF sorted[Len(sorted)].start <= ev.start THEN Append(sorted, ev)
  ELSE Append(InsertByStart(SubSeq(sorted, 1, Len(sorted) - 1), ev), sorted[Len(sorted)])

RECURSIVE SortByStart(_)
SortByStart(evs) ==
  IF evs = <<>> THEN <<>>
  ELSE InsertByStart(SortByStart(SubSeq(evs, 1, Len(evs) - 1)), evs[Len(evs)])

RECURSIVE FutureOnly(_, _)
FutureOnly(evs, t) ==
  IF evs = <<>> THEN <<>>
  ELSE IF Head(evs).start - t > 0
       THEN <<Head(evs)>> \o FutureOnly(Tail(evs), t)
       ELSE FutureOnly(Tail(evs), t)

\* a bug get_pending_tutor_cals could have: the events are not sorted
get_pending_tutor_cals_Unsorted(evs, t) == FutureOnly(evs, t)

get_pending_tutor_cals(evs, t) == FutureOnly(SortByStart(evs), t)

\* summary.replace(chr(65288), '(').replace(chr(65289), ')')
ReplaceFullwidth(summary) ==
  [i \in 1..Len(summary) |->
     IF summary[i] = FWLP THEN LP ELSE IF summary[i] = FWRP THEN RP ELSE summary[i]]

\* name.split()[0]: the first word, or IndexError when there is none
RECURSIVE FirstWord(_)
FirstWord(name) ==
  IF name = <<>> THEN IndexError
  ELSE IF Head(name) \in Whitespace THEN FirstWord(Tail(name))
  ELSE LET stops == {i \in 1..Len(name) : name[i] \in Whitespace}
       IN IF stops = {} THEN name
          ELSE SubSeq(name, 1, (CHOOSE i \in stops : \A j \in stops : i <= j) - 1)

\* s_name with args.test false: `' ' not in name` raises TypeError for
\* None, and name.split()[0] raises IndexError for a name of blanks
s_name(name) ==
  IF name = None THEN TypeError
  ELSE IF \A i \in 1..Len(name) : name[i] # " " THEN name
  ELSE FirstWord(name)

\* re.search(r'\((.*)\)', summary): the leftmost '(' that has a ')' after
\* it on the same line, up to the last ')' of that line; then the name is
\* logged through s_name, which may raise
extract_name_from_cal(summary0) ==
  LET summary == ReplaceFullwidth(summary0)
      opens == {i \in 1..Len(summary) : summary[i] = LP}
      closes == {i \in 1..Len(summary) : summary[i] = RP}
      SameLine(f, l) == l > f /\ \A k \in (f + 1)..(l - 1) : summary[k] # NL
      starts == {f \in opens : \E l \in closes : SameLine(f, l)}
  IN IF starts = {} THEN None
     ELSE LET f == CHOOSE i \in starts : \A j \in starts : i <= j
              ends == {l \in closes : SameLine(f, l)}
              l == CHOOSE i \in ends : \A j \in ends : i >= j
              name == SubSeq(summary, f + 1, l - 1)
          IN IF s_name(name) = IndexError THEN IndexError ELSE name

\* calid = '{}-{}'.format(start, summary)
CalId(ev) == <<ev.start, ev.summary>>

\* RE_SLACKID.match(text): a mention at the very start of the text
MatchSlackId(text) ==
  IF text # <<>> /\ text[1].mention # "" THEN text[1].mention ELSE NoneId

\* message_tutor: which of the three texts is sent
message_tutor(slackid, name) ==
  IF slackid \notin {NoneId, ""} THEN "shift_mention"
  ELSE IF name \notin {None, <<>>} THEN "shift_ask"
  ELSE "shift_confused"

\* a message posted to the channel by sendmsg
Msg(kind, thread, calid, user, at) ==
  [kind |-> kind, thread |-> thread, calid |-> calid, user |-> user, at |-> at]

\* what a function that writes tutors_dict leaves: the dict, and the
\* exception it raised ("none" when it returned)
Left(dict, err) == [dict |-> dict, err |-> err]

\* the exception s_name raises for this name, "none" when it returns
Raised(name) ==
  IF s_name(name) = TypeError THEN "TypeError"
  ELSE IF s_name(name) = IndexError THEN "IndexError"
  ELSE "none"

\* a bug add_tutor could have: no `real_name not in tutors_dict` guard
add_tutor_Clobber(dict, member) ==
  LET real_name == IF member.real_name # NoKey THEN member.real_name ELSE member.name
  IN IF Raised(real_name) # "none" THEN Left(dict, Raised(real_name))
     ELSE Left(Put(dict, real_name, member.id), "none")

\* add_tutor(member) on a name -> slackid dict; a new name is logged
\* through s_name before it is written, and nothing is written when that
\* raises
add_tutor(dict, member) ==
  LET real_name == IF member.real_name # NoKey THEN member.real_name ELSE member.name
  IN IF real_name \in DOMAIN dict THEN Left(dict, "none")
     ELSE IF Raised(real_name) # "none" THEN Left(dict, Raised(real_name))
     ELSE Left(Put(dict, real_name, member.id), "none")

\* lines 196-197: the directory snapshot through add_tutor, up to the first
\* member add_tutor raises for
RECURSIVE AddAll(_, _)
AddAll(dict, members) ==
  IF members = <<>> THEN Left(dict, "none")
  ELSE LET a == add_tutor(dict, Head(members))
       IN IF a.err # "none" THEN a ELSE AddAll(a.dict, Tail(members))

\* lines 199-203: the persisted overrides, pairs <<real_name, slackid>> in
\* the order hgetall lists them; each is written and then logged through
\* s_name
RECURSIVE Override(_, _)
Override(dict, items) ==
  IF items = <<>> THEN Left(dict, "none")
  ELSE LET written == Put(dict, Head(items)[1], Head(items)[2])
       IN IF Raised(Head(items)[1]) # "none"
          THEN Left(written, Raised(Head(items)[1]))
          ELSE Override(written, Tail(items))

\* load_tutors_dict: the directory snapshot through add_tutor, then every
\* persisted override on top
load_tutors_dict(members, items) ==
  LET listed == AddAll(EmptyDict, members)
  IN IF listed.err # "none" THEN listed ELSE Override(listed.dict, items)

\* dict.items(): the pairs of a dict, in each order they may be listed in
ItemsOf(d) ==
  {s \in [1..Cardinality(DOMAIN d) -> {<<n, d[n]>> : n \in DOMAIN d}] :
     \A i, j \in DOMAIN s : i # j => s[i] # s[j]}

\* ------------------------------------------------------------------------
\* State
\* ------------------------------------------------------------------------
VARIABLES
  feed,               \* what get_events() returns (icalevents, CALENDAR_URL)
  tutors_dict,        \* real name -> slackid
  amended,            \* the redis hash AMENDED_REALNAMETOSLACK_KEY
  msg_id_to_watch,    \* ts -> [sourcename, calid]
  already_announced,  \* calid -> [cal, msgid, acked]
  checked_hour,       \* the hour checked up to, or NoHour
  now,                \* datetime.now() as read by the latest tick
  poll,               \* where the poll task is suspended, and its locals
  next_ts,            \* the ts Slack gives the next notification
  sent                \* bag of the messages posted so far

vars == <<feed, tutors_dict, amended, msg_id_to_watch, already_announced,
          checked_hour, now, poll, next_ts, sent>>

\* poll.pc: "sleep" (asyncio.sleep), "announce" (await message_tutor),
\* "warn" (await sendmsg of the warning), "escalate" (await sendmsg of the
\* escalation), "stopped" (process_calendar_loop is over: poll.err tells
\* why).  poll.ok: whether the awaited send succeeds.
PollAt(pc, i, notify, todo, ts, ok, err) ==
  [pc |-> pc, i |-> i, notify |-> notify, todo |-> todo, ts |-> ts, ok |-> ok, err |-> err]

Sleeping == PollAt("sleep", 0, FALSE, <<>>, 0, TRUE, "none")
Stopped(err) == PollAt("stopped", 0, FALSE, <<>>, 0, TRUE, err)

SendPcs == {"announce", "warn", "escalate"}

\* the feeds: at most MaxEvents events of the pool, in the pool's order,
\* or one event listed twice
RECURSIVE SubFeed(_, _)
SubFeed(S, i) ==
  IF i > Len(EventPool) THEN <<>>
  ELSE IF i \in S THEN <<EventPool[i]>> \o SubFeed(S, i + 1)
  ELSE SubFeed(S, i + 1)

Feeds ==
  {SubFeed(S, 1) : S \in {X \in SUBSET (1..Len(EventPool)) : Cardinality(X) <= MaxEvents}}
  \cup {<<ev, ev>> : ev \in {EventPool[i] : i \in {3}}}

\* what users_list returns at startup, and what the redis hash holds
DirectorySnapshots == {<<>>, <<M1, M2>>, <<M2, M3, M1>>}
AmendedAtStart == {EmptyDict, [n \in {NameA} |-> "U2"]}

\* how main's `await load_tutors_dict()` ends: users_list raises or answers
\* ok: False, hgetall raises, or the function runs (and may raise in
\* add_tutor or at line 203)
StartupOutcomes == {"users_list", "hgetall", "run"}

\* an exception in load_tutors_dict ends main before the RTM client and
\* the poll task are started
Init ==
  /\ feed \in Feeds
  /\ amended \in AmendedAtStart
  /\ \E members \in DirectorySnapshots, items \in ItemsOf(amended),
        outcome \in StartupOutcomes :
       LET l == IF outcome = "users_list" THEN Left(EmptyDict, "users_list")
                ELSE IF outcome = "hgetall"
                THEN LET listed == AddAll(EmptyDict, members)
                     IN Left(listed.dict, IF listed.err # "none" THEN listed.err
                                          ELSE "hgetall")
                ELSE load_tutors_dict(members, items)
       IN /\ tutors_dict = l.dict
          /\ poll = IF l.err = "none" THEN Sleeping ELSE Stopped("startup")
  /\ msg_id_to_watch = EmptyDict
  /\ already_announced = EmptyDict
  /\ checked_hour = NoHour
  /\ now = T0
  /\ next_ts = 1
  /\ sent = EmptyBag

\* ------------------------------------------------------------------------
\* process_calendar, from one await to the next
\* ------------------------------------------------------------------------
\* list(already_announced.keys()): a dict lists its keys in insertion
\* order, which is the order of the notifications' ts
RECURSIVE KeysList(_)
KeysList(aa) ==
  IF DOMAIN aa = {} THEN <<>>
  ELSE LET first == CHOOSE c \in DOMAIN aa : \A d \in DOMAIN aa : aa[c].msgid <= aa[d].msgid
       IN <<first>> \o KeysList(Del(aa, first))

\* where a run of process_calendar has got to: the next await (pc), or the
\* end of the tick ("sleep"), or an exception ("stopped", err)
Reached(pc, i, notify, todo, aa, watch, err) ==
  [pc |-> pc, i |-> i, notify |-> notify, todo |-> todo, aa |-> aa, watch |-> watch, err |-> err]

\* a bug EscalationDue could have: escalating on the time alone
EscalationDue_TimeOnly(data, watch, t) ==
  IF data.cal.start - t > Minutes(MINUTES_DANGER) THEN "no" ELSE "due"

\* lines 353-364: what the loop does at time t with a record that has not
\* ended: "no" (continue), "due" (the escalation is sent), or the exception
\* of line 362, which logs s_name(sourcename): "TypeError" for a nameless
\* shift
EscalationDue(data, watch, t) ==
  IF data.acked THEN "no"
  ELSE IF data.msgid \notin DOMAIN watch THEN "no"
  ELSE IF Raised(watch[data.msgid].sourcename) # "none"
  THEN Raised(watch[data.msgid].sourcename)
  ELSE IF data.cal.start - t > Minutes(MINUTES_DANGER) THEN "no"
  ELSE "due"

\* a bug Expire could have: the WatchedMessage is left behind
Expire_KeepsWatch(calid, aa, watch) ==
  [aa |-> Del(aa, calid), watch |-> watch, err |-> "none"]

\* lines 347-351: the expiry of one record; the second del raises KeyError
\* when the message is no longer watched
Expire(calid, aa, watch) ==
  LET msgid == aa[calid].msgid
  IN IF msgid \in DOMAIN watch
     THEN [aa |-> Del(aa, calid), watch |-> Del(watch, msgid), err |-> "none"]
     ELSE [aa |-> Del(aa, calid), watch |-> watch, err |-> "KeyError"]

\* lines 343-368: the loop over the announced shifts, up to the await of an
\* escalation for Head(todo), or to an exception
RECURSIVE Sweep(_, _, _, _)
Sweep(todo, aa, watch, t) ==
  IF todo = <<>> THEN Reached("sleep", 0, FALSE, <<>>, aa, watch, "none")
  ELSE LET calid == Head(todo)
           data == aa[calid]
       IN IF data.cal.end < t
          THEN LET e == Expire(calid, aa, watch)
               IN IF e.err # "none"
                  THEN Reached("stopped", 0, FALSE, <<>>, e.aa, e.watch, e.err)
                  ELSE Sweep(Tail(todo), e.aa, e.watch, t)
          ELSE LET due == EscalationDue(data, watch, t)
               IN IF due \notin {"no", "due"}
                  THEN Reached("stopped", 0, FALSE, <<>>, aa, watch, due)
                  ELSE IF due = "due"
                  THEN Reached("escalate", 0, FALSE, todo, aa, watch, "none")
                  ELSE Sweep(Tail(todo), aa, watch, t)

\* a bug ScanFrom could have: no `calid in already_announced` guard
RECURSIVE ScanFrom_Reannounce(_, _, _, _, _)
ScanFrom_Reannounce(pending, i, notify, aa, t) ==
  IF i > Len(pending) THEN [pc |-> "scanned", i |-> i, notify |-> notify]
  ELSE LET cal == pending[i]
           notify2 == IF hour(cal.start) = hour(t + Minutes(60)) THEN FALSE ELSE notify
       IN IF cal.start - t >= Minutes(MINUTES_NOTIFY)
          THEN [pc |-> "scanned", i |-> i, notify |-> notify2]
          ELSE IF extract_name_from_cal(cal.summary) = IndexError
          THEN [pc |-> "raised", i |-> i, notify |-> notify2]
          ELSE [pc |-> "announce", i |-> i, notify |-> notify2]

\* lines 292-317: the loop over the pending events from the i-th on, up to
\* the await of a notification ("announce"), its end ("scanned"), or the
\* IndexError of extract_name_from_cal at line 313 ("raised")
RECURSIVE ScanFrom(_, _, _, _, _)
ScanFrom(pending, i, notify, aa, t) ==
  IF i > Len(pending) THEN [pc |-> "scanned", i |-> i, notify |-> notify]
  ELSE LET cal == pending[i]
           notify2 == IF hour(cal.start) = hour(t + Minutes(60)) THEN FALSE ELSE notify
       IN IF cal.start - t >= Minutes(MINUTES_NOTIFY)
          THEN [pc |-> "scanned", i |-> i, notify |-> notify2]
          ELSE IF CalId(cal) \in DOMAIN aa
          THEN ScanFrom(pending, i + 1, notify2, aa, t)
          ELSE IF extract_name_from_cal(cal.summary) = IndexError
          THEN [pc |-> "raised", i |-> i, notify |-> notify2]
          ELSE [pc |-> "announce", i |-> i, notify |-> notify2]

\* lines 292-368 from the i-th pending event on
Proceed(pending, i, notify, aa, watch, t) ==
  LET s == ScanFrom(pending, i, notify, aa, t)
  IN IF s.pc = "announce"
     THEN Reached("announce", s.i, s.notify, <<>>, aa, watch, "none")
     ELSE IF s.pc = "raised"
     THEN Reached("stopped", 0, FALSE, <<>>, aa, watch, "IndexError")
     ELSE IF s.notify
     THEN Reached("warn", 0, TRUE, <<>>, aa, watch, "none")
     ELSE Sweep(KeysList(aa), aa, watch, t)

\* format_real_name: the mention of the Slack id when it is known (the
\* raw name otherwise, recorded as no id)
format_real_name(real_name) ==
  IF real_name \in DOMAIN tutors_dict THEN tutors_dict[real_name] ELSE ""

\* the message whose send is awaited at r
Outgoing(r, pending, t) ==
  CASE r.pc = "announce" ->
         LET cal == pending[r.i]
             name == extract_name_from_cal(cal.summary)
             slackid == Get(tutors_dict, name, NoneId)
         IN Msg(message_tutor(slackid, name), NoThread, CalId(cal),
                IF slackid = NoneId THEN "" ELSE slackid, 0)
    [] r.pc = "warn" ->
         Msg("warning", NoThread, NoCal, "", t + Minutes(60) - (t % Minutes(60)))
    [] r.pc = "escalate" ->
         LET data == r.aa[Head(r.todo)]
             prev_msg == Get(r.watch, data.msgid, [sourcename |-> None])
         IN Msg("ohno", data.msgid, CalId(data.cal),
                format_real_name(prev_msg.sourcename), 0)

\* the poll task runs up to r; a send awaited there succeeds (ok: the
\* message is posted, a notification gets its ts) or will raise
Land(r, pending, t) ==
  /\ already_announced' = r.aa
  /\ msg_id_to_watch' = r.watch
  /\ IF r.pc \in SendPcs
     THEN \E ok \in BOOLEAN :
            /\ sent' = IF ok THEN sent (+) SetToBag({Outgoing(r, pending, t)}) ELSE sent
            /\ next_ts' = IF ok /\ r.pc = "announce" THEN next_ts + 1 ELSE next_ts
            /\ poll' = PollAt(r.pc, r.i, r.notify, r.todo,
                              IF ok /\ r.pc = "announce" THEN next_ts ELSE 0, ok, "none")
     ELSE /\ sent' = sent
          /\ next_ts' = next_ts
          /\ poll' = IF r.pc = "stopped" THEN Stopped(r.err) ELSE Sleeping

\* lines 283-288: the coverage checkpoint at time t
NotifyMissing(t) ==
  /\ 60 - minute(t) < MINUTES_NOUSERS
  /\ checked_hour # hour(t + Minutes(60))
  /\ is_checked_hour(hour(t + Minutes(60)))

\* a bug CheckedHourAt could have: the checkpoint is never advanced
CheckedHourAt_Stale(t) == checked_hour

\* line 288: checked_hour after the coverage check at time t
CheckedHourAt(t) ==
  IF 60 - minute(t) < MINUTES_NOUSERS THEN hour(t + Minutes(60)) ELSE checked_hour

\* the times at which the next tick may read the clock
NextTicks == {t \in (now + Minutes(SLEEP_MINUTES))..(now + MaxStep) : t <= MaxTime}

\* lines 277-279: a tick before START_DATETIME does nothing
TickBeforeStart ==
  /\ poll.pc = "sleep"
  /\ \E t \in NextTicks :
       /\ t < START_DATETIME
       /\ now' = t
  /\ UNCHANGED <<feed, tutors_dict, amended, msg_id_to_watch, already_announced,
                 checked_hour, poll, next_ts, sent>>

\* lines 275-368: a tick, up to its first await or its end
Tick ==
  /\ poll.pc = "sleep"
  /\ \E t \in NextTicks :
       /\ ~(t < START_DATETIME)
       /\ now' = t
       /\ checked_hour' = CheckedHourAt(t)
       /\ LET pending == get_pending_tutor_cals(feed, t)
          IN Land(Proceed(pending, 1, NotifyMissing(t), already_announced,
                          msg_id_to_watch, t), pending, t)
  /\ UNCHANGED <<feed, tutors_dict, amended>>

\* line 290: get_events() raises; nothing catches it
FetchFails ==
  /\ poll.pc = "sleep"
  /\ \E t \in NextTicks :
       /\ ~(t < START_DATETIME)
       /\ now' = t
       /\ checked_hour' = CheckedHourAt(t)
  /\ poll' = Stopped("fetch")
  /\ UNCHANGED <<feed, tutors_dict, amended, msg_id_to_watch, already_announced,
                 next_ts, sent>>

\* lines 317-323, then on with the loop
AnnounceResume ==
  /\ poll.pc = "announce"
  /\ poll.ok
  /\ LET pending == get_pending_tutor_cals(feed, now)
         cal == pending[poll.i]
         calid == CalId(cal)
         name == extract_name_from_cal(cal.summary)
         watch == Put(msg_id_to_watch, poll.ts, [sourcename |-> name, calid |-> calid])
         aa == Put(already_announced, calid,
                   [cal |-> cal, msgid |-> poll.ts, acked |-> FALSE])
     IN Land(Proceed(pending, poll.i + 1, poll.notify, aa, watch, now), pending, now)
  /\ UNCHANGED <<feed, tutors_dict, amended, checked_hour, now>>

\* line 341, then on to the loop over the announced shifts
WarnResume ==
  /\ poll.pc = "warn"
  /\ poll.ok
  /\ Land(Sweep(KeysList(already_announced), already_announced, msg_id_to_watch, now),
          <<>>, now)
  /\ UNCHANGED <<feed, tutors_dict, amended, checked_hour, now>>

\* lines 368-369: del msg_id_to_watch[msgid] raises KeyError when a
\* reaction took the message away during the send
EscalateResume ==
  /\ poll.pc = "escalate"
  /\ poll.ok
  /\ LET msgid == already_announced[Head(poll.todo)].msgid
     IN IF msgid \in DOMAIN msg_id_to_watch
        THEN Land(Sweep(Tail(poll.todo), already_announced,
                        Del(msg_id_to_watch, msgid), now), <<>>, now)
        ELSE /\ poll' = Stopped("KeyError")
             /\ UNCHANGED <<msg_id_to_watch, already_announced, next_ts, sent>>
  /\ UNCHANGED <<feed, tutors_dict, amended, checked_hour, now>>

\* sendmsg raises (the API call, or assert response['ok']): nothing
\* catches it and process_calendar_loop ends
SendRaises ==
  /\ poll.pc \in SendPcs
  /\ ~poll.ok
  /\ poll' = Stopped("send")
  /\ UNCHANGED <<feed, tutors_dict, amended, msg_id_to_watch, already_announced,
                 checked_hour, now, next_ts, sent>>

\* ------------------------------------------------------------------------
\* The RTM handlers.  Each changes the state before its only await (the
\* confirmation it sends), so each is one step.
\* ------------------------------------------------------------------------
\* the RTM task runs its handlers.  It is never started when
\* load_tutors_dict raises, and it is over when an exception of a handler
\* ended it.  It outlives the poll task: when that has ended (an exception,
\* or stop()), gather raises in main (line 395) and asyncio.run cancels the
\* RTM task some turns of the event loop later, and until then a handler
\* in flight is resumed and an event that arrives is handled.  The
\* cancellation changes nothing of the state: the run ends there.
Alive == ~(poll.pc = "stopped" /\ poll.err \in {"startup", "handler"})

\* how many messages of this kind were posted
SentOfKind(kind) ==
  LET ms == {m \in DOMAIN sent : m.kind = kind}
  IN BagCardinality([m \in ms |-> sent[m]])

\* an exception leaves a handler: whether the RTM client outlives it is
\* the library's business; when it does not, rtmtask ends, and main with
\* it: asyncio.run cancels the poll task where it is suspended.  Once the
\* poll task has ended main is ending already, and the end of the RTM
\* task changes nothing of the state
HandlerRaises ==
  \E fatal \in IF poll.pc = "stopped" THEN {FALSE} ELSE BOOLEAN :
    poll' = IF fatal THEN Stopped("handler") ELSE poll

\* lines 239-241 for a record that exists: acked is set, then the
\* confirmation is sent (ok) or sendmsg raises
Acknowledge(msgid, userid, calid) ==
  /\ already_announced' = [already_announced EXCEPT ![calid].acked = TRUE]
  /\ \E ok \in BOOLEAN :
       IF ok
       THEN /\ sent' = sent (+) SetToBag({Msg("thanks", msgid, calid, userid, 0)})
            /\ poll' = poll
       ELSE /\ sent' = sent
            /\ HandlerRaises

\* a bug rtm_reaction_added could have: no `slackid != userid` return
rtm_reaction_added_AnyUser(msgid, userid) ==
  /\ Alive
  /\ msgid \in DOMAIN msg_id_to_watch
  /\ LET calid == msg_id_to_watch[msgid].calid
     IN /\ msg_id_to_watch' = Del(msg_id_to_watch, msgid)
        /\ IF calid \in DOMAIN already_announced
           THEN Acknowledge(msgid, userid, calid)
           ELSE /\ already_announced' = already_announced
                /\ sent' = sent
                /\ HandlerRaises
  /\ UNCHANGED <<feed, tutors_dict, amended, checked_hour, now, next_ts>>

\* a bug rtm_reaction_added could have: the message stays watched
rtm_reaction_added_KeepsWatch(msgid, userid) ==
  /\ Alive
  /\ msgid \in DOMAIN msg_id_to_watch
  /\ LET prev_msg == msg_id_to_watch[msgid]
         slackid == Get(tutors_dict, prev_msg.sourcename, "")
         calid == prev_msg.calid
     IN /\ slackid = userid
        /\ msg_id_to_watch' = msg_id_to_watch
        /\ IF calid \in DOMAIN already_announced
           THEN Acknowledge(msgid, userid, calid)
           ELSE /\ already_announced' = already_announced
                /\ sent' = sent
                /\ HandlerRaises
  /\ UNCHANGED <<feed, tutors_dict, amended, checked_hour, now, next_ts>>

\* rtm_reaction_added, lines 220-242
rtm_reaction_added(msgid, userid) ==
  /\ Alive
  /\ msgid \in DOMAIN msg_id_to_watch
  /\ LET prev_msg == msg_id_to_watch[msgid]
         slackid == Get(tutors_dict, prev_msg.sourcename, "")
         calid == prev_msg.calid
     IN /\ slackid = userid
        /\ msg_id_to_watch' = Del(msg_id_to_watch, msgid)
        /\ IF calid \in DOMAIN already_announced
           THEN Acknowledge(msgid, userid, calid)
           ELSE \* already_announced[calid] raises KeyError
                /\ already_announced' = already_announced
                /\ sent' = sent
                /\ HandlerRaises
  /\ UNCHANGED <<feed, tutors_dict, amended, checked_hour, now, next_ts>>

\* rtm_reaction_added returning early: some other message (line 229) or not
\* the user we care about (line 235)
rtm_reaction_ignored(msgid, userid) ==
  /\ Alive
  /\ IF msgid \in DOMAIN msg_id_to_watch
     THEN Get(tutors_dict, msg_id_to_watch[msgid].sourcename, "") # userid
     ELSE TRUE

\* a reaction to one of the messages posted so far, or to another message
\* (0); the reactions that return early all leave the state as it is
ReactionAdded ==
  \/ \E msgid \in 0..(next_ts - 1), userid \in Users :
       rtm_reaction_added(msgid, userid)
  \/ /\ {e \in (0..(next_ts - 1)) \X Users : rtm_reaction_ignored(e[1], e[2])} # {}
     /\ UNCHANGED vars

\* lines 264-268 for the stored name and the mentioned id: None.encode
\* raises AttributeError, or r.hset raises, or the pair is persisted and
\* then the confirmation is sent (ok) or sendmsg raises
Persist(threadid, data, foundid) ==
  IF data.sourcename = None
  THEN /\ amended' = amended
       /\ sent' = sent
       /\ HandlerRaises
  ELSE \E outcome \in {"hset", "send", "ok"} :
         IF outcome = "hset"
         THEN /\ amended' = amended
              /\ sent' = sent
              /\ HandlerRaises
         ELSE /\ amended' = Put(amended, data.sourcename, foundid)
              /\ IF outcome = "send"
                 THEN /\ sent' = sent
                      /\ HandlerRaises
                 ELSE /\ SentOfKind("updated") < MaxCorrelations
                      /\ sent' = sent (+) SetToBag({Msg("updated", threadid, data.calid,
                                                         foundid, 0)})
                      /\ poll' = poll

\* a bug rtm_message could have: the reply itself acknowledges the shift
rtm_message_Acks(threadid, text) ==
  /\ Alive
  /\ threadid # NoThread
  /\ threadid \in DOMAIN msg_id_to_watch
  /\ MatchSlackId(text) # NoneId
  /\ LET data == msg_id_to_watch[threadid]
         foundid == MatchSlackId(text)
     IN /\ tutors_dict' = Put(tutors_dict, data.sourcename, foundid)
        /\ msg_id_to_watch' = Del(msg_id_to_watch, threadid)
        /\ already_announced' =
             IF data.calid \in DOMAIN already_announced
             THEN [already_announced EXCEPT ![data.calid].acked = TRUE]
             ELSE already_announced
        /\ Persist(threadid, data, foundid)
  /\ UNCHANGED <<feed, checked_hour, now, next_ts>>

\* rtm_message, lines 245-268.  The dict is written (263) before the pair
\* is persisted and the confirmation sent
rtm_message(threadid, text) ==
  /\ Alive
  /\ threadid # NoThread
  /\ threadid \in DOMAIN msg_id_to_watch
  /\ MatchSlackId(text) # NoneId
  /\ LET data == msg_id_to_watch[threadid]
         foundid == MatchSlackId(text)
     IN /\ tutors_dict' = Put(tutors_dict, data.sourcename, foundid)
        /\ Persist(threadid, data, foundid)
  /\ UNCHANGED <<feed, msg_id_to_watch, already_announced, checked_hour, now, next_ts>>

\* rtm_message returning early: not a thread reply, not a watched thread,
\* or no mention at the start of the text
rtm_message_ignored(threadid, text) ==
  /\ Alive
  /\ (threadid = NoThread
      \/ threadid \notin DOMAIN msg_id_to_watch
      \/ MatchSlackId(text) = NoneId)

\* rtm_message reads of a text only the id at its start: one text for
\* each id the texts start with
MentionTexts ==
  {CHOOSE text \in Texts : MatchSlackId(text) = id :
     id \in {MatchSlackId(text) : text \in Texts} \ {NoneId}}

\* a message in the channel (thread 0) or in the thread of a message
\* posted so far; the messages that return early all leave the state as it
\* is
MessageEvent ==
  \/ \E threadid \in 0..(next_ts - 1), text \in MentionTexts :
       rtm_message(threadid, text)
  \/ /\ {e \in (0..(next_ts - 1)) \X Texts : rtm_message_ignored(e[1], e[2])} # {}
     /\ UNCHANGED vars

\* add_tutor(member) in a handler, for one of these members: the dict it
\* leaves, and the handler raises when add_tutor does.  Members that
\* add_tutor treats alike are one case
Register(members) ==
  \E a \in {add_tutor(tutors_dict, member) : member \in members} :
    /\ tutors_dict' = a.dict
    /\ IF a.err = "none" THEN poll' = poll ELSE HandlerRaises

\* rtm_user_change, lines 214-217
rtm_user_change ==
  /\ Alive
  /\ Register(Members)
  /\ UNCHANGED <<feed, amended, msg_id_to_watch, already_announced, checked_hour,
                 now, next_ts, sent>>

\* rtm_member_joined_channel, lines 206-211: users_info answers with a
\* member of that id (ok), or it raises or answers ok: False
rtm_member_joined_channel ==
  /\ Alive
  /\ \E ok \in BOOLEAN :
       IF ok
       THEN Register({member \in Members : member.id \in Users})
       ELSE /\ tutors_dict' = tutors_dict
            /\ HandlerRaises
  /\ UNCHANGED <<feed, amended, msg_id_to_watch, already_announced, checked_hour,
                 now, next_ts, sent>>

\* stop, lines 388-393: SIGHUP, SIGTERM or SIGINT stops the RTM client and
\* cancels the poll task wherever it is suspended; gather raises
\* CancelledError (line 401).  A handler in flight is still resumed
stop ==
  /\ poll.pc # "stopped"
  /\ poll' = Stopped("CancelledError")
  /\ UNCHANGED <<feed, tutors_dict, amended, msg_id_to_watch, already_announced,
                 checked_hour, now, next_ts, sent>>

Next ==
  \/ TickBeforeStart
  \/ Tick
  \/ FetchFails
  \/ AnnounceResume
  \/ WarnResume
  \/ EscalateResume
  \/ SendRaises
  \/ ReactionAdded
  \/ MessageEvent
  \/ rtm_user_change
  \/ rtm_member_joined_channel
  \/ stop

Spec == Init /\ [][Next]_vars

\* ------------------------------------------------------------------------
\* Properties
\* ------------------------------------------------------------------------
ShiftKinds == {"shift_mention", "shift_ask", "shift_confused"}

\* how many messages of these kinds about this shift a bag holds
PostedIn(bag, kinds, calid) ==
  LET ms == {m \in DOMAIN bag : m.kind \in kinds /\ m.calid = calid}
  IN BagCardinality([m \in ms |-> bag[m]])

Posted(kinds, calid) == PostedIn(sent, kinds, calid)

Announcements(calid) == Posted(ShiftKinds, calid)
Escalations(calid) == Posted({"ohno"}, calid)
Confirmations(calid) == Posted({"thanks"}, calid)

FeedCalIds == {CalId(feed[i]) : i \in 1..Len(feed)}

\* the tick that read the clock at `now` has run its loop over the
\* announced shifts: to the end, or to an exception in it
SweepOver ==
  poll.pc = "sleep" \/ (poll.pc = "stopped" /\ poll.err \in {"KeyError", "TypeError"})

\* C1: every ShiftIdentity (start, summary) is announced at most once, and
\* a shift that has a ShiftRecord was announced exactly once, however many
\* ticks see its event below MINUTES_NOTIFY.
C1_AnnouncedAtMostOnce ==
  /\ \A calid \in FeedCalIds : Announcements(calid) <= 1
  /\ \A calid \in DOMAIN already_announced : Announcements(calid) = 1

\* C1 witness: the feed lists one identity twice, its record exists, and
\* ticks from START_DATETIME up to the last minute before its start have
\* seen it.
C1_Witness ==
  /\ Len(feed) = 2
  /\ CalId(feed[1]) = CalId(feed[2])
  /\ poll.pc = "sleep"
  /\ CalId(feed[1]) \in DOMAIN already_announced
  /\ feed[1].start - now <= Minutes(1)
  /\ Announcements(CalId(feed[1])) = 1

\* C2 (as claimed): after a tick that ran its loop over the announced
\* shifts, no shift with end < now has a ShiftRecord or a WatchedMessage.
C2_ExpiredGoneAfterTick ==
  SweepOver =>
    /\ \A calid \in DOMAIN already_announced : ~(already_announced[calid].cal.end < now)
    /\ \A msgid \in DOMAIN msg_id_to_watch :
         LET calid == msg_id_to_watch[msgid].calid
         IN calid \in DOMAIN already_announced
            /\ ~(already_announced[calid].cal.end < now)

\* C3 (as claimed): no removal of a ShiftRecord or WatchedMessage raises;
\* "already removed by the other path" is a no-op.
C3_RemovalNeverRaises == poll.err # "KeyError"

\* C4 (as claimed): no shift is escalated twice; once a tick has run its
\* loop over the announced shifts every announced shift that is still
\* unacknowledged at MINUTES_DANGER or less from its start has been
\* escalated exactly once; and no step discards the record of an
\* unacknowledged shift unless it was escalated exactly once.
C4_EscalatedExactlyOnce ==
  /\ [](\A calid \in FeedCalIds : Escalations(calid) <= 1)
  /\ [](SweepOver =>
         \A calid \in DOMAIN already_announced :
           (~already_announced[calid].acked
            /\ already_announced[calid].cal.start - now <= Minutes(MINUTES_DANGER))
           => Escalations(calid) = 1)
  /\ [][\A calid \in DOMAIN already_announced :
         (calid \notin DOMAIN already_announced' /\ ~already_announced[calid].acked)
         => PostedIn(sent', {"ohno"}, calid) = 1]_vars

\* C5: an escalation is posted only for a shift whose acknowledged flag is
\* false at that moment.
C5_NoEscalationOnceAcked ==
  [][\A calid \in DOMAIN already_announced :
       PostedIn(sent', {"ohno"}, calid) > Escalations(calid)
       => ~already_announced[calid].acked]_vars

\* C5 witness: a tick is over, an acknowledged shift is past the danger
\* threshold, and no escalation was posted for it.
C5_Witness ==
  /\ poll.pc = "sleep"
  /\ \E calid \in DOMAIN already_announced :
       /\ already_announced[calid].acked
       /\ already_announced[calid].cal.start - now <= Minutes(MINUTES_DANGER)
       /\ Escalations(calid) = 0

\* C6: whenever a watched message's shift becomes acknowledged or a
\* confirmation is posted in its thread, the step is a reaction of the
\* identity tutors_dict holds for the stored name at that moment: it
\* removes the WatchedMessage and posts nothing but that confirmation (and
\* nothing when its send fails).  Any other reaction changes nothing.
C6_AckOnlyFromResolvedIdentity ==
  [][\A msgid \in DOMAIN msg_id_to_watch :
       \A calid \in {msg_id_to_watch[msgid].calid},
          slackid \in {Get(tutors_dict, msg_id_to_watch[msgid].sourcename, "")} :
          (\/ PostedIn(sent', {"thanks"}, calid) > Confirmations(calid)
           \/ /\ calid \in DOMAIN already_announced
              /\ calid \in DOMAIN already_announced'
              /\ ~already_announced[calid].acked
              /\ already_announced'[calid].acked)
          => /\ slackid \in Users
             /\ \/ sent' = sent (+) SetToBag({Msg("thanks", msgid, calid, slackid, 0)})
                \/ sent' = sent
             /\ msgid \notin DOMAIN msg_id_to_watch']_vars

\* C6 witness: a correlation reply changed the identity of a name, and a
\* shift was then acknowledged by a reaction.
C6_Witness ==
  /\ SentOfKind("updated") > 0
  /\ \E calid \in DOMAIN already_announced :
       /\ already_announced[calid].acked
       /\ Confirmations(calid) = 1

\* C7 (as claimed): a shift whose summary yields no name is never
\* acknowledged.
C7_NamelessNeverAcked ==
  \A calid \in DOMAIN already_announced :
    extract_name_from_cal(already_announced[calid].cal.summary) = None
    => ~already_announced[calid].acked

\* C8 (as claimed): a failure inside a tick (the feed fetch, a send, an
\* exception in process_calendar) does not stop the poll loop.
C8_TickFailureNotFatal ==
  poll.err \in {"fetch", "send", "KeyError", "TypeError", "IndexError"}
  => poll.pc # "stopped"

\* C9 (as claimed): no coverage warning is posted for an hour in which
\* some event of the feed, still in the future at that tick, starts.
C9_WarningSuppressedByCoverage ==
  \A m \in DOMAIN sent :
    m.kind = "warning" =>
      \A i \in 1..Len(feed) :
        ~(hour(feed[i].start) = hour(m.at) /\ feed[i].start >= m.at)

\* C10: the coverage warning for one checked hour is posted at most once.
C10_WarningAtMostOncePerHour ==
  \A m \in DOMAIN sent : m.kind = "warning" => sent[m] <= 1

\* C10 witness: the warning for the next hour was posted, and at least one
\* later tick of the same clock hour, inside the last MINUTES_NOUSERS
\* minutes, is over.
C10_Witness ==
  /\ poll.pc = "sleep"
  /\ \E m \in DOMAIN sent :
       /\ m.kind = "warning"
       /\ now < m.at
       /\ now > START_DATETIME + MaxStep

\* C11 (as claimed): a ShiftRecord's msgid is set exactly when
\* msg_id_to_watch holds that message; once an acknowledgement or an
\* escalation has removed the WatchedMessage, the record no longer
\* references it.
C11_MsgidSetIffWatched ==
  \A calid \in DOMAIN already_announced :
    \A msgid \in {already_announced[calid].msgid} :
      msgid # NoThread <=> msgid \in DOMAIN msg_id_to_watch

\* a reaction on this message by this user is taken as the acknowledgement
\* of this shift
AckTaken(msgid, userid, calid) ==
  ENABLED (/\ rtm_reaction_added(msgid, userid)
           /\ calid \in DOMAIN already_announced'
           /\ already_announced'[calid].acked)

\* C12 (as claimed): while the service runs, once the notification of a
\* shift is posted and until the shift is acknowledged, escalated or
\* expired, a reaction on it by the identity tutors_dict holds for the
\* shift's name is taken as the acknowledgement: also while the poll task
\* is still suspended at the send of that notification.
C12_NoAckLost ==
  poll.pc # "stopped" =>
    /\ (poll.pc = "announce" /\ poll.ok) =>
         \A cal \in {get_pending_tutor_cals(feed, now)[poll.i]} :
           \A slackid \in {Get(tutors_dict, extract_name_from_cal(cal.summary), "")} :
             slackid \in Users => AckTaken(poll.ts, slackid, CalId(cal))
    /\ \A calid \in DOMAIN already_announced :
         \A slackid \in {Get(tutors_dict,
                             extract_name_from_cal(already_announced[calid].cal.summary), "")} :
           (/\ ~already_announced[calid].acked
            /\ Escalations(calid) = 0
            /\ slackid \in Users)
           => AckTaken(already_announced[calid].msgid, slackid, calid)

\* C13: a correlation reply sets tutors_dict for the thread's stored name
\* to the mentioned id, and no step that changes tutors_dict acknowledges a
\* shift or removes a WatchedMessage; while the service runs, a reaction on
\* a watched message by the identity tutors_dict then holds for its name
\* does acknowledge the shift.
C13_CorrelationDoesNotAck ==
  /\ [][/\ tutors_dict' # tutors_dict
           => /\ msg_id_to_watch' = msg_id_to_watch
              /\ already_announced' = already_announced
        /\ \A threadid \in DOMAIN msg_id_to_watch :
             \A name \in {msg_id_to_watch[threadid].sourcename},
                calid \in {msg_id_to_watch[threadid].calid}, userid \in Users :
               sent' = sent (+) SetToBag({Msg("updated", threadid, calid, userid, 0)})
               => /\ name \in DOMAIN tutors_dict'
                  /\ tutors_dict'[name] = userid]_vars
  /\ [](\A msgid \in DOMAIN msg_id_to_watch :
          \A slackid \in {Get(tutors_dict, msg_id_to_watch[msgid].sourcename, "")} :
            (Alive /\ slackid \in Users)
            => AckTaken(msgid, slackid, msg_id_to_watch[msgid].calid))

\* C13 witness: a correlation reply was answered in a thread, the thread's
\* message is still watched and its shift still unacknowledged, and the
\* name resolves to the id the reply mentioned.
C13_Witness ==
  \E m \in DOMAIN sent :
    /\ m.kind = "updated"
    /\ m.thread \in DOMAIN msg_id_to_watch
    /\ m.calid \in DOMAIN already_announced
    /\ ~already_announced[m.calid].acked
    /\ Get(tutors_dict, msg_id_to_watch[m.thread].sourcename, "") = m.user

\* C14 (as claimed): whenever a correlation reply changes tutors_dict for
\* the stored name of a watched message, the same pair is in the redis hash
\* after the step, so that load_tutors_dict at a restart, from any directory
\* snapshot it does not raise for and that hash, resolves the name to the
\* same id.
C14_CorrelationPersisted ==
  [][\A threadid \in DOMAIN msg_id_to_watch :
       \A name \in {msg_id_to_watch[threadid].sourcename} :
         (/\ Get(tutors_dict', name, NoneId) # Get(tutors_dict, name, NoneId)
          /\ (name = None \/ SentOfKind("updated")' > SentOfKind("updated")))
         => /\ Get(amended', name, NoneId) = tutors_dict'[name]
            /\ \A members \in DirectorySnapshots, items \in ItemsOf(amended') :
                 \A l \in {load_tutors_dict(members, items)} :
                   l.err = "none" => Get(l.dict, name, NoneId) = tutors_dict'[name]]_vars

\* the step answers a correlation reply in this thread, naming this user
Corrected(threadid, userid) ==
  sent' = sent (+) SetToBag({Msg("updated", threadid,
                                 msg_id_to_watch[threadid].calid, userid, 0)})

\* C15: no step removes a name from tutors_dict; a member-joined or
\* profile-changed event leaves the id of every name already in it; a step
\* that changes the id of such a name happens while a thread that stores
\* this name is watched, and posts nothing but the answer to a correlation
\* reply in that thread (nothing when the pair or the answer cannot be
\* written); an answered correlation reply always leaves the thread's name
\* mapped to the id it mentions.
C15_DirectoryNeverClobbers ==
  [][/\ \A name \in DOMAIN tutors_dict :
          /\ name \in DOMAIN tutors_dict'
          /\ tutors_dict'[name] # tutors_dict[name]
             => \E threadid \in DOMAIN msg_id_to_watch :
                  /\ msg_id_to_watch[threadid].sourcename = name
                  /\ sent' = sent \/ Corrected(threadid, tutors_dict'[name])
     /\ (rtm_user_change \/ rtm_member_joined_channel)
        => \A name \in DOMAIN tutors_dict :
             name \in DOMAIN tutors_dict' /\ tutors_dict'[name] = tutors_dict[name]
     /\ \A threadid \in DOMAIN msg_id_to_watch, userid \in Users :
          Corrected(threadid, userid)
          => Get(tutors_dict', msg_id_to_watch[threadid].sourcename, NoneId) = userid]_vars

\* C15 witness: the name was mapped at startup to U2 by the redis hash or
\* not at all, a member event of U2 under this name is possible at any
\* time, and a correlation reply has mapped the name to U1, where it stays.
C15_Witness ==
  /\ NameA \in DOMAIN amended
  /\ amended[NameA] = "U1"
  /\ tutors_dict[NameA] = "U1"
  /\ \E member \in Members : member.id = "U2" /\ member.name = NameA
  /\ poll.pc = "sleep"

\* C16 (as claimed): a ShiftRecord that is unacknowledged and still has
\* its WatchedMessage when a tick finds it past its end (hence past the
\* danger threshold) is escalated before that tick deletes it: no step
\* deletes such a record without its escalation having been posted.
C16_EscalatedBeforeExpiry ==
  [][\A calid \in DOMAIN already_announced :
       (/\ calid \notin DOMAIN already_announced'
        /\ ~already_announced[calid].acked
        /\ already_announced[calid].msgid \in DOMAIN msg_id_to_watch)
       => PostedIn(sent', {"ohno"}, calid) >= 1]_vars

\* C17 (as claimed): a ShiftRecord is acknowledged exactly when one
\* confirmation was posted for it: the reaction of the resolved identity
\* sets acknowledged, removes the WatchedMessage and sends exactly one
\* confirmation, however many reactions follow.
C17_AckedConfirmedOnce ==
  /\ \A calid \in FeedCalIds : Confirmations(calid) <= 1
  /\ \A calid \in DOMAIN already_announced :
       /\ already_announced[calid].acked <=> Confirmations(calid) = 1
       /\ already_announced[calid].acked
          => already_announced[calid].msgid \notin DOMAIN msg_id_to_watch

\* the reaction on this message by this user can be handled so that the
\* shift is acknowledged, the message no longer watched and one
\* confirmation posted for the shift
AckConfirmed(msgid, userid, calid) ==
  ENABLED (/\ rtm_reaction_added(msgid, userid)
           /\ calid \in DOMAIN already_announced'
           /\ already_announced'[calid].acked
           /\ msgid \notin DOMAIN msg_id_to_watch'
           /\ PostedIn(sent', {"thanks"}, calid) = 1)

\* C17 (corrected): at most one confirmation is ever posted for a
\* ShiftIdentity, and only for a shift that is acknowledged; the message of
\* an acknowledged shift is no longer watched.  Every step that
\* acknowledges a shift removes its WatchedMessage and posts this one
\* confirmation, by the identity tutors_dict holds for the stored name, or
\* posts nothing (the send failed); once a shift is acknowledged no step
\* posts a confirmation for it, however many reactions follow.  While the
\* service runs, a reaction by the resolved identity on a watched message
\* can be handled with the confirmation posted.
C17_AtMostOneConfirmation ==
  /\ [](\A calid \in FeedCalIds : Confirmations(calid) <= 1)
  /\ [](\A calid \in DOMAIN already_announced :
          /\ Confirmations(calid) = 1 => already_announced[calid].acked
          /\ already_announced[calid].acked
             => already_announced[calid].msgid \notin DOMAIN msg_id_to_watch)
  /\ [][\A calid \in DOMAIN already_announced :
          \A msgid \in {already_announced[calid].msgid} :
            /\ (/\ calid \in DOMAIN already_announced'
                /\ ~already_announced[calid].acked
                /\ already_announced'[calid].acked)
               => /\ msgid \in DOMAIN msg_id_to_watch
                  /\ msgid \notin DOMAIN msg_id_to_watch'
                  /\ \/ sent' = sent
                     \/ sent' = sent (+) SetToBag({Msg("thanks", msgid, calid,
                              Get(tutors_dict, msg_id_to_watch[msgid].sourcename, ""), 0)})
            /\ already_announced[calid].acked
               => PostedIn(sent', {"thanks"}, calid) = Confirmations(calid)]_vars
  /\ [](\A msgid \in DOMAIN msg_id_to_watch :
          \A slackid \in {Get(tutors_dict, msg_id_to_watch[msgid].sourcename, "")} :
            (Alive /\ slackid \in Users)
            => AckConfirmed(msgid, slackid, msg_id_to_watch[msgid].calid))

\* C17 witness: the resolved identity reacted to a notification, its
\* shift is acknowledged with one confirmation in the thread, the message
\* is no longer watched, and a later tick is over.
C17_Witness ==
  /\ poll.pc = "sleep"
  /\ \E m \in DOMAIN sent :
       /\ m.kind = "thanks"
       /\ sent[m] = 1
       /\ m.user = Get(tutors_dict, extract_name_from_cal(m.calid[2]), "")
       /\ m.calid \in DOMAIN already_announced
       /\ already_announced[m.calid].acked
       /\ already_announced[m.calid].msgid = m.thread
       /\ m.thread \notin DOMAIN msg_id_to_watch
       /\ now > START_DATETIME + MaxStep

\* C18: when a tick from START_DATETIME on has run to its end, every event
\* of the feed that starts after now and less than MINUTES_NOTIFY minutes
\* from now has a ShiftRecord; and every notification a tick sends is for
\* an event that starts after that tick's now and less than MINUTES_NOTIFY
\* minutes from it.
C18_ScanSkipsNoCandidate ==
  /\ (poll.pc = "sleep" /\ ~(now < START_DATETIME)) =>
       \A i \in 1..Len(feed) :
         (0 < feed[i].start - now /\ feed[i].start - now < Minutes(MINUTES_NOTIFY))
         => CalId(feed[i]) \in DOMAIN already_announced
  /\ poll.pc = "announce" =>
       \A cal \in {get_pending_tutor_cals(feed, now)[poll.i]} :
         0 < cal.start - now /\ cal.start - now < Minutes(MINUTES_NOTIFY)

\* C18 witness: the feed lists a far event before a near one; a tick has
\* run to its end, the near one has its ShiftRecord and the far one, still
\* MINUTES_NOTIFY or more away, has none.
C18_Witness ==
  /\ poll.pc = "sleep"
  /\ ~(now < START_DATETIME)
  /\ Len(feed) = 2
  /\ feed[1].start - now >= Minutes(MINUTES_NOTIFY)
  /\ 0 < feed[2].start - now
  /\ feed[2].start - now < Minutes(MINUTES_NOTIFY)
  /\ CalId(feed[2]) \in DOMAIN already_announced
  /\ CalId(feed[1]) \notin DOMAIN already_announced

\* C19: every WatchedMessage names a ShiftRecord that exists and whose
\* msgid is the WatchedMessage's key, so the reaction handler's
\* already_announced[calid]['acked'] = True always finds its record.
C19_WatchedHasRecord ==
  \A msgid \in DOMAIN msg_id_to_watch :
    /\ msg_id_to_watch[msgid].calid \in DOMAIN already_announced
    /\ already_announced[msg_id_to_watch[msgid].calid].msgid = msgid

\* C19 witness: the service runs, one announced shift has expired and its
\* record is gone, and the message of another is watched.
C19_Witness ==
  /\ poll.pc # "stopped"
  /\ DOMAIN msg_id_to_watch # {}
  /\ \E calid \in FeedCalIds :
       /\ Announcements(calid) = 1
       /\ calid \notin DOMAIN already_announced

\* C20 (as claimed): no ShiftIdentity gets both a confirmation ("Thanks")
\* and an escalation ("hasn't responded").
C20_AckedXorEscalated ==
  \A calid \in FeedCalIds : ~(Confirmations(calid) >= 1 /\ Escalations(calid) >= 1)

====
